---- MODULE Spec2Model ----
(***************************************************************************)
(* A model of lib/wasi/src/lib.rs of wasmer: the calling-thread identity   *)
(* oracle (current_caller_id), the translators of guest-memory access      *)
(* errors (mem_error_to_wasi, mem_error_to_bus), the registry of the       *)
(* versioned import namespaces (generate_import_object_from_env,           *)
(* import_object_for_all_wasi_versions and the four namespace builders)    *)
(* and the life of a fork continuation snapshot (WasiVFork).               *)
(*                                                                         *)
(* The four parts share no state.  Each has its own variables, its own     *)
(* next-state relation and its own specification (SpecCaller, SpecErrors,  *)
(* SpecImports, SpecFork); Spec is their composition.                      *)
(***************************************************************************)
EXTENDS Integers, Sequences, FiniteSets, TLC

VARIABLES
    \* ---- calling-thread identity oracle ----
    CALLER_ID_SEED,   \* the process-wide AtomicU32
    CALLER_ID,        \* the thread-local cell of every native thread
    status,           \* "unborn" | "running" | "exited", per native thread
    pc,               \* where each thread stands inside current_caller_id
    rets,             \* history: the distinct values current_caller_id returned to each
                      \*          thread, in the order of their first return
    before,           \* history: the threads whose first call had returned when this
                      \*          thread's first call began
    allocated,        \* history: the values fetch_add handed out since the initial
                      \*          state, in the order of the allocations
    \* ---- error translators ----
    errlog,           \* history: the translations made, <<translator, cause, code>>
    \* ---- import registry ----
    rcall,            \* the running top-level call: a version, "all", or "none"
    rqueue,           \* the builders the running call still has to run: <<key, builder>>
    ridx,             \* the number of entries the running builder has inserted
    rns,              \* the Exports the running builder is filling
    rexports,         \* the finished Exports of the running call: <<key, Exports>>
    built,            \* the Imports every completed call returned, per call
    \* ---- fork continuation snapshots ----
    vfork             \* per fork request: the holders of the WasiVFork, the holders of
                      \* its env, its handle, and the history of its use

callerVars == <<CALLER_ID_SEED, CALLER_ID, status, pc, rets, before, allocated>>
errorVars == <<errlog>>
importVars == <<rcall, rqueue, ridx, rns, rexports, built>>
forkVars == <<vfork>>
vars == <<callerVars, errorVars, importVars, forkVars>>

(***************************************************************************)
(* Bounds of the model.                                                    *)
(***************************************************************************)
\* the native threads the process creates while it is observed
MaxThreads == 3
\* the translations kept in the history of the error translators
MaxLog == 4
\* the fork requests made while the process is observed
MaxForks == 2

(***************************************************************************)
(* The calling-thread identity oracle.                                     *)
(***************************************************************************)
\* A u32 is kept as its two 16-bit halves <<high, low>>, the value being
\* high * 2^16 + low: 2^32 is beyond the integers TLC computes with.
U16 == 2 ^ 16

u32(n) == <<(n \div U16) % U16, n % U16>>

U32_MAX == <<U16 - 1, U16 - 1>>

\* a < b on u32
U32Less(a, b) == a[1] < b[1] \/ (a[1] = b[1] /\ a[2] < b[2])

\* a + 1 on u32 that stays at the maximum: what a saturating counter would store
saturating_add_1(a) ==
    IF a = U32_MAX THEN a
    ELSE IF a[2] + 1 < U16 THEN <<a[1], a[2] + 1>> ELSE <<a[1] + 1, 0>>

\* a + 1 on u32, wrapping: what AtomicU32::fetch_add(1, _) stores
wrapping_add_1(a) ==
    IF a[2] + 1 < U16 THEN <<a[1], a[2] + 1>> ELSE <<(a[1] + 1) % U16, 0>>

Threads == 1 .. MaxThreads

\* the main thread of the process: the first native thread
MainThread == CHOOSE t \in Threads : \A u \in Threads : t <= u

\* the values of a sequence
Range(s) == {s[i] : i \in DOMAIN s}

\* thread_local!(static CALLER_ID: RefCell<u32> = RefCell::new(0))
CALLER_ID_Init == u32(0)

\* lazy_static CALLER_ID_SEED = AtomicU32::new(1)
CALLER_ID_SEED_Init == u32(1)

(***************************************************************************)
(* The states the oracle is observed from.  A fresh process: the counter   *)
(* is 1 and no thread has asked for its identity.  A long-running process: *)
(* the main thread drew identity 1 at start-up and still runs, and the     *)
(* threads that drew 2 .. 2^32 - 2 since then have all exited, so that the *)
(* counter stands at 2^32 - 1.                                             *)
(***************************************************************************)
InitFresh ==
    /\ CALLER_ID_SEED = CALLER_ID_SEED_Init
    /\ CALLER_ID = [t \in Threads |-> CALLER_ID_Init]
    /\ status = [t \in Threads |-> "unborn"]
    /\ rets = [t \in Threads |-> <<>>]

InitLongRunning ==
    /\ CALLER_ID_SEED = U32_MAX
    /\ CALLER_ID = [t \in Threads |-> IF t = MainThread THEN CALLER_ID_SEED_Init
                                                       ELSE CALLER_ID_Init]
    /\ status = [t \in Threads |-> IF t = MainThread THEN "running" ELSE "unborn"]
    /\ rets = [t \in Threads |-> IF t = MainThread THEN <<CALLER_ID_SEED_Init>> ELSE <<>>]

InitCaller ==
    /\ InitFresh \/ InitLongRunning
    /\ pc = [t \in Threads |-> "idle"]
    /\ before = [t \in Threads |-> {}]
    /\ allocated = <<>>

\* a native thread starts: its thread-local cell is initialised lazily to 0
ThreadSpawn(t) ==
    /\ status[t] = "unborn"
    /\ status' = [status EXCEPT ![t] = "running"]
    /\ CALLER_ID' = [CALLER_ID EXCEPT ![t] = CALLER_ID_Init]
    /\ UNCHANGED <<CALLER_ID_SEED, pc, rets, before, allocated, errorVars, importVars, forkVars>>

\* a native thread ends outside current_caller_id: its thread-local cell is dropped
ThreadExit(t) ==
    /\ status[t] = "running"
    /\ pc[t] = "idle"
    /\ status' = [status EXCEPT ![t] = "exited"]
    /\ UNCHANGED <<CALLER_ID_SEED, CALLER_ID, pc, rets, before, allocated, errorVars, importVars, forkVars>>

\* current_caller_id is entered: CALLER_ID.with(|f| { let mut caller_id = f.borrow_mut();
Enter(t) ==
    /\ status[t] = "running"
    /\ pc[t] = "idle"
    /\ pc' = [pc EXCEPT ![t] = "check"]
    /\ before' = [before EXCEPT ![t] =
                    IF rets[t] = <<>>
                    THEN {u \in Threads : rets[u] # <<>>}
                    ELSE @]
    /\ UNCHANGED <<CALLER_ID_SEED, CALLER_ID, status, rets, allocated, errorVars, importVars, forkVars>>

\* a body that asks whether the thread was ever given a value, not whether the
\* cell is 0
Check_assigned_once(t) ==
    /\ pc[t] = "check"
    /\ pc' = [pc EXCEPT ![t] = IF rets[t] = <<>> THEN "fetch_add" ELSE "return"]
    /\ UNCHANGED <<CALLER_ID_SEED, CALLER_ID, status, rets, before, allocated, errorVars, importVars, forkVars>>

\* a body that draws from the counter without looking at the cell
Check_always_allocates(t) ==
    /\ pc[t] = "check"
    /\ pc' = [pc EXCEPT ![t] = "fetch_add"]
    /\ UNCHANGED <<CALLER_ID_SEED, CALLER_ID, status, rets, before, allocated, errorVars, importVars, forkVars>>

\* if *caller_id == 0 {
Check(t) ==
    /\ pc[t] = "check"
    /\ pc' = [pc EXCEPT ![t] = IF CALLER_ID[t] = u32(0) THEN "fetch_add" ELSE "return"]
    /\ UNCHANGED <<CALLER_ID_SEED, CALLER_ID, status, rets, before, allocated, errorVars, importVars, forkVars>>

\* a body that stores the value of the counter after the add, not before it
FetchAdd_stores_new_value(t) ==
    /\ pc[t] = "fetch_add"
    /\ CALLER_ID' = [CALLER_ID EXCEPT ![t] =
                        <<(CALLER_ID_SEED[1] + ((CALLER_ID_SEED[2] + 1) \div U16)) % U16,
                          (CALLER_ID_SEED[2] + 1) % U16>>]
    /\ CALLER_ID_SEED' = CALLER_ID'[t]
    /\ pc' = [pc EXCEPT ![t] = "return"]
    /\ allocated' = Append(allocated, CALLER_ID'[t])
    /\ UNCHANGED <<status, rets, before, errorVars, importVars, forkVars>>

\* a cell declared static rather than thread_local: one cell for every thread
FetchAdd_process_wide_cell(t) ==
    /\ pc[t] = "fetch_add"
    /\ CALLER_ID' = [u \in Threads |-> CALLER_ID_SEED]
    /\ CALLER_ID_SEED' = <<(CALLER_ID_SEED[1] + ((CALLER_ID_SEED[2] + 1) \div U16)) % U16,
                           (CALLER_ID_SEED[2] + 1) % U16>>
    /\ pc' = [pc EXCEPT ![t] = "return"]
    /\ allocated' = Append(allocated, CALLER_ID_SEED)
    /\ UNCHANGED <<status, rets, before, errorVars, importVars, forkVars>>

\* *caller_id = CALLER_ID_SEED.fetch_add(1, Ordering::AcqRel): one atomic
\* read-modify-write; the cell gets the value the counter had
FetchAdd(t) ==
    /\ pc[t] = "fetch_add"
    /\ CALLER_ID' = [CALLER_ID EXCEPT ![t] = CALLER_ID_SEED]
    /\ CALLER_ID_SEED' = wrapping_add_1(CALLER_ID_SEED)
    /\ pc' = [pc EXCEPT ![t] = "return"]
    /\ allocated' = Append(allocated, CALLER_ID_SEED)
    /\ UNCHANGED <<status, rets, before, errorVars, importVars, forkVars>>

\* *caller_id }).into(): the value of the cell is returned
Return(t) ==
    /\ pc[t] = "return"
    /\ rets' = [rets EXCEPT ![t] = IF CALLER_ID[t] \in Range(@) THEN @
                                                                ELSE Append(@, CALLER_ID[t])]
    /\ pc' = [pc EXCEPT ![t] = "idle"]
    /\ UNCHANGED <<CALLER_ID_SEED, CALLER_ID, status, before, allocated, errorVars, importVars, forkVars>>

current_caller_id(t) ==
    \/ Enter(t)
    \/ Check(t)
    \/ FetchAdd(t)
    \/ Return(t)

NextCaller ==
    \E t \in Threads :
        \/ ThreadSpawn(t)
        \/ ThreadExit(t)
        \/ current_caller_id(t)

(***************************************************************************)
(* The error translators.                                                  *)
(***************************************************************************)
\* wasmer::MemoryAccessError is #[non_exhaustive]: the three causes the
\* translators name, and "Other" for every cause their wildcard arm takes
MemoryAccessError == {"HeapOutOfBounds", "Overflow", "NonUtf8String", "Other"}

\* a translator whose Overflow arm repeats the arm above it
mem_error_to_wasi_fault(err) ==
    CASE err = "HeapOutOfBounds" -> "Errno::Fault"
      [] err = "Overflow" -> "Errno::Fault"
      [] err = "NonUtf8String" -> "Errno::Inval"
      [] OTHER -> "Errno::Inval"

mem_error_to_wasi(err) ==
    CASE err = "HeapOutOfBounds" -> "Errno::Fault"
      [] err = "Overflow" -> "Errno::Overflow"
      [] err = "NonUtf8String" -> "Errno::Inval"
      [] OTHER -> "Errno::Inval"

\* a translator whose wildcard arm repeats the arm above it
mem_error_to_bus_badrequest(err) ==
    CASE err = "HeapOutOfBounds" -> "BusErrno::Memviolation"
      [] err = "Overflow" -> "BusErrno::Memviolation"
      [] err = "NonUtf8String" -> "BusErrno::Badrequest"
      [] OTHER -> "BusErrno::Badrequest"

mem_error_to_bus(err) ==
    CASE err = "HeapOutOfBounds" -> "BusErrno::Memviolation"
      [] err = "Overflow" -> "BusErrno::Memviolation"
      [] err = "NonUtf8String" -> "BusErrno::Badrequest"
      [] OTHER -> "BusErrno::Unknown"

InitErrors == errlog = <<>>

\* a system call of the file/process ABI fails on a guest-memory access
MemErrorToWasi(err) ==
    /\ Len(errlog) < MaxLog
    /\ errlog' = Append(errlog, <<"mem_error_to_wasi", err, mem_error_to_wasi(err)>>)
    /\ UNCHANGED <<callerVars, importVars, forkVars>>

\* a bus call fails on a guest-memory access
MemErrorToBus(err) ==
    /\ Len(errlog) < MaxLog
    /\ errlog' = Append(errlog, <<"mem_error_to_bus", err, mem_error_to_bus(err)>>)
    /\ UNCHANGED <<callerVars, importVars, forkVars>>

NextErrors ==
    \E err \in MemoryAccessError :
        \/ MemErrorToWasi(err)
        \/ MemErrorToBus(err)

(***************************************************************************)
(* The import registry.                                                    *)
(*                                                                         *)
(* An entry of a namespace table is <<name, function, memory>>: the line   *)
(*   "name" => Function::new_typed_with_env(&mut store, env, function::<memory>)  *)
(* of the source, with memory "none" where the source gives the function   *)
(* no memory-size parameter.                                               *)
(***************************************************************************)
WasiVersion == {"Snapshot0", "Snapshot1", "Latest", "Wasix32v1", "Wasix64v1"}

EntryName(e) == e[1]
EntryBinding(e) == [function |-> e[2], memory |-> e[3]]

\* the namespace! { ... } literal of wasi_unstable_exports
namespace_wasi_unstable ==
    << <<"args_get", "args_get", "Memory32">>,
       <<"args_sizes_get", "args_sizes_get", "Memory32">>,
       <<"clock_res_get", "clock_res_get", "Memory32">>,
       <<"clock_time_get", "clock_time_get", "Memory32">>,
       <<"environ_get", "environ_get", "Memory32">>,
       <<"environ_sizes_get", "environ_sizes_get", "Memory32">>,
       <<"fd_advise", "fd_advise", "none">>,
       <<"fd_allocate", "fd_allocate", "none">>,
       <<"fd_close", "fd_close", "none">>,
       <<"fd_datasync", "fd_datasync", "none">>,
       <<"fd_fdstat_get", "fd_fdstat_get", "Memory32">>,
       <<"fd_fdstat_set_flags", "fd_fdstat_set_flags", "none">>,
       <<"fd_fdstat_set_rights", "fd_fdstat_set_rights", "none">>,
       <<"fd_filestat_get", "legacy::snapshot0::fd_filestat_get", "none">>,
       <<"fd_filestat_set_size", "fd_filestat_set_size", "none">>,
       <<"fd_filestat_set_times", "fd_filestat_set_times", "none">>,
       <<"fd_pread", "fd_pread", "Memory32">>,
       <<"fd_prestat_get", "fd_prestat_get", "Memory32">>,
       <<"fd_prestat_dir_name", "fd_prestat_dir_name", "Memory32">>,
       <<"fd_pwrite", "fd_pwrite", "Memory32">>,
       <<"fd_read", "fd_read", "Memory32">>,
       <<"fd_readdir", "fd_readdir", "Memory32">>,
       <<"fd_renumber", "fd_renumber", "none">>,
       <<"fd_seek", "legacy::snapshot0::fd_seek", "none">>,
       <<"fd_sync", "fd_sync", "none">>,
       <<"fd_tell", "fd_tell", "Memory32">>,
       <<"fd_write", "fd_write", "Memory32">>,
       <<"path_create_directory", "path_create_directory", "Memory32">>,
       <<"path_filestat_get", "legacy::snapshot0::path_filestat_get", "none">>,
       <<"path_filestat_set_times", "path_filestat_set_times", "Memory32">>,
       <<"path_link", "path_link", "Memory32">>,
       <<"path_open", "path_open", "Memory32">>,
       <<"path_readlink", "path_readlink", "Memory32">>,
       <<"path_remove_directory", "path_remove_directory", "Memory32">>,
       <<"path_rename", "path_rename", "Memory32">>,
       <<"path_symlink", "path_symlink", "Memory32">>,
       <<"path_unlink_file", "path_unlink_file", "Memory32">>,
       <<"poll_oneoff", "legacy::snapshot0::poll_oneoff", "none">>,
       <<"proc_exit", "proc_exit", "Memory32">>,
       <<"proc_raise", "proc_raise", "none">>,
       <<"random_get", "random_get", "Memory32">>,
       <<"sched_yield", "sched_yield", "none">>,
       <<"sock_recv", "sock_recv", "Memory32">>,
       <<"sock_send", "sock_send", "Memory32">>,
       <<"sock_shutdown", "sock_shutdown", "none">> >>

\* the namespace! { ... } literal of wasi_snapshot_preview1_exports
namespace_wasi_snapshot_preview1 ==
    << <<"args_get", "args_get", "Memory32">>,
       <<"args_sizes_get", "args_sizes_get", "Memory32">>,
       <<"clock_res_get", "clock_res_get", "Memory32">>,
       <<"clock_time_get", "clock_time_get", "Memory32">>,
       <<"environ_get", "environ_get", "Memory32">>,
       <<"environ_sizes_get", "environ_sizes_get", "Memory32">>,
       <<"fd_advise", "fd_advise", "none">>,
       <<"fd_allocate", "fd_allocate", "none">>,
       <<"fd_close", "fd_close", "none">>,
       <<"fd_datasync", "fd_datasync", "none">>,
       <<"fd_fdstat_get", "fd_fdstat_get", "Memory32">>,
       <<"fd_fdstat_set_flags", "fd_fdstat_set_flags", "none">>,
       <<"fd_fdstat_set_rights", "fd_fdstat_set_rights", "none">>,
       <<"fd_filestat_get", "fd_filestat_get", "Memory32">>,
       <<"fd_filestat_set_size", "fd_filestat_set_size", "none">>,
       <<"fd_filestat_set_times", "fd_filestat_set_times", "none">>,
       <<"fd_pread", "fd_pread", "Memory32">>,
       <<"fd_prestat_get", "fd_prestat_get", "Memory32">>,
       <<"fd_prestat_dir_name", "fd_prestat_dir_name", "Memory32">>,
       <<"fd_pwrite", "fd_pwrite", "Memory32">>,
       <<"fd_read", "fd_read", "Memory32">>,
       <<"fd_readdir", "fd_readdir", "Memory32">>,
       <<"fd_renumber", "fd_renumber", "none">>,
       <<"fd_seek", "fd_seek", "Memory32">>,
       <<"fd_sync", "fd_sync", "none">>,
       <<"fd_tell", "fd_tell", "Memory32">>,
       <<"fd_write", "fd_write", "Memory32">>,
       <<"path_create_directory", "path_create_directory", "Memory32">>,
       <<"path_filestat_get", "path_filestat_get", "Memory32">>,
       <<"path_filestat_set_times", "path_filestat_set_times", "Memory32">>,
       <<"path_link", "path_link", "Memory32">>,
       <<"path_open", "path_open", "Memory32">>,
       <<"path_readlink", "path_readlink", "Memory32">>,
       <<"path_remove_directory", "path_remove_directory", "Memory32">>,
       <<"path_rename", "path_rename", "Memory32">>,
       <<"path_symlink", "path_symlink", "Memory32">>,
       <<"path_unlink_file", "path_unlink_file", "Memory32">>,
       <<"poll_oneoff", "poll_oneoff", "Memory32">>,
       <<"proc_exit", "proc_exit", "Memory32">>,
       <<"proc_raise", "proc_raise", "none">>,
       <<"random_get", "random_get", "Memory32">>,
       <<"sched_yield", "sched_yield", "none">>,
       <<"sock_recv", "sock_recv", "Memory32">>,
       <<"sock_send", "sock_send", "Memory32">>,
       <<"sock_shutdown", "sock_shutdown", "none">> >>

\* the namespace! { ... } literal of wasix_exports_32
namespace_wasix_32 ==
    << <<"args_get", "args_get", "Memory32">>,
       <<"args_sizes_get", "args_sizes_get", "Memory32">>,
       <<"clock_res_get", "clock_res_get", "Memory32">>,
       <<"clock_time_get", "clock_time_get", "Memory32">>,
       <<"clock_time_set", "clock_time_set", "Memory32">>,
       <<"environ_get", "environ_get", "Memory32">>,
       <<"environ_sizes_get", "environ_sizes_get", "Memory32">>,
       <<"fd_advise", "fd_advise", "none">>,
       <<"fd_allocate", "fd_allocate", "none">>,
       <<"fd_close", "fd_close", "none">>,
       <<"fd_datasync", "fd_datasync", "none">>,
       <<"fd_fdstat_get", "fd_fdstat_get", "Memory32">>,
       <<"fd_fdstat_set_flags", "fd_fdstat_set_flags", "none">>,
       <<"fd_fdstat_set_rights", "fd_fdstat_set_rights", "none">>,
       <<"fd_filestat_get", "fd_filestat_get", "Memory32">>,
       <<"fd_filestat_set_size", "fd_filestat_set_size", "none">>,
       <<"fd_filestat_set_times", "fd_filestat_set_times", "none">>,
       <<"fd_pread", "fd_pread", "Memory32">>,
       <<"fd_prestat_get", "fd_prestat_get", "Memory32">>,
       <<"fd_prestat_dir_name", "fd_prestat_dir_name", "Memory32">>,
       <<"fd_pwrite", "fd_pwrite", "Memory32">>,
       <<"fd_read", "fd_read", "Memory32">>,
       <<"fd_readdir", "fd_readdir", "Memory32">>,
       <<"fd_renumber", "fd_renumber", "none">>,
       <<"fd_dup", "fd_dup", "Memory32">>,
       <<"fd_event", "fd_event", "Memory32">>,
       <<"fd_seek", "fd_seek", "Memory32">>,
       <<"fd_sync", "fd_sync", "none">>,
       <<"fd_tell", "fd_tell", "Memory32">>,
       <<"fd_write", "fd_write", "Memory32">>,
       <<"fd_pipe", "fd_pipe", "Memory32">>,
       <<"path_create_directory", "path_create_directory", "Memory32">>,
       <<"path_filestat_get", "path_filestat_get", "Memory32">>,
       <<"path_filestat_set_times", "path_filestat_set_times", "Memory32">>,
       <<"path_link", "path_link", "Memory32">>,
       <<"path_open", "path_open", "Memory32">>,
       <<"path_readlink", "path_readlink", "Memory32">>,
       <<"path_remove_directory", "path_remove_directory", "Memory32">>,
       <<"path_rename", "path_rename", "Memory32">>,
       <<"path_symlink", "path_symlink", "Memory32">>,
       <<"path_unlink_file", "path_unlink_file", "Memory32">>,
       <<"poll_oneoff", "poll_oneoff", "Memory32">>,
       <<"proc_exit", "proc_exit", "Memory32">>,
       <<"proc_fork", "proc_fork", "Memory32">>,
       <<"proc_join", "proc_join", "Memory32">>,
       <<"proc_signal", "proc_signal", "Memory32">>,
       <<"proc_exec", "proc_exec", "Memory32">>,
       <<"proc_raise", "proc_raise", "none">>,
       <<"proc_raise_interval", "proc_raise_interval", "none">>,
       <<"proc_spawn", "proc_spawn", "Memory32">>,
       <<"proc_id", "proc_id", "Memory32">>,
       <<"proc_parent", "proc_parent", "Memory32">>,
       <<"random_get", "random_get", "Memory32">>,
       <<"tty_get", "tty_get", "Memory32">>,
       <<"tty_set", "tty_set", "Memory32">>,
       <<"getcwd", "getcwd", "Memory32">>,
       <<"chdir", "chdir", "Memory32">>,
       <<"callback_signal", "callback_signal", "Memory32">>,
       <<"callback_thread", "callback_thread", "Memory32">>,
       <<"callback_reactor", "callback_reactor", "Memory32">>,
       <<"callback_thread_local_destroy", "callback_thread_local_destroy", "Memory32">>,
       <<"thread_spawn", "thread_spawn", "Memory32">>,
       <<"thread_local_create", "thread_local_create", "Memory32">>,
       <<"thread_local_destroy", "thread_local_destroy", "none">>,
       <<"thread_local_set", "thread_local_set", "none">>,
       <<"thread_local_get", "thread_local_get", "Memory32">>,
       <<"thread_sleep", "thread_sleep", "none">>,
       <<"thread_id", "thread_id", "Memory32">>,
       <<"thread_signal", "thread_signal", "none">>,
       <<"thread_join", "thread_join", "none">>,
       <<"thread_parallelism", "thread_parallelism", "Memory32">>,
       <<"thread_exit", "thread_exit", "none">>,
       <<"sched_yield", "sched_yield", "none">>,
       <<"stack_checkpoint", "stack_checkpoint", "Memory32">>,
       <<"stack_restore", "stack_restore", "Memory32">>,
       <<"futex_wait", "futex_wait", "Memory32">>,
       <<"futex_wake", "futex_wake", "Memory32">>,
       <<"futex_wake_all", "futex_wake_all", "Memory32">>,
       <<"bus_open_local", "bus_open_local", "Memory32">>,
       <<"bus_open_remote", "bus_open_remote", "Memory32">>,
       <<"bus_close", "bus_close", "none">>,
       <<"bus_call", "bus_call", "Memory32">>,
       <<"bus_subcall", "bus_subcall", "Memory32">>,
       <<"bus_poll", "bus_poll", "Memory32">>,
       <<"call_reply", "call_reply", "Memory32">>,
       <<"call_fault", "call_fault", "none">>,
       <<"call_close", "call_close", "none">>,
       <<"ws_connect", "ws_connect", "Memory32">>,
       <<"http_request", "http_request", "Memory32">>,
       <<"http_status", "http_status", "Memory32">>,
       <<"port_bridge", "port_bridge", "Memory32">>,
       <<"port_unbridge", "port_unbridge", "none">>,
       <<"port_dhcp_acquire", "port_dhcp_acquire", "none">>,
       <<"port_addr_add", "port_addr_add", "Memory32">>,
       <<"port_addr_remove", "port_addr_remove", "Memory32">>,
       <<"port_addr_clear", "port_addr_clear", "none">>,
       <<"port_addr_list", "port_addr_list", "Memory32">>,
       <<"port_mac", "port_mac", "Memory32">>,
       <<"port_gateway_set", "port_gateway_set", "Memory32">>,
       <<"port_route_add", "port_route_add", "Memory32">>,
       <<"port_route_remove", "port_route_remove", "Memory32">>,
       <<"port_route_clear", "port_route_clear", "none">>,
       <<"port_route_list", "port_route_list", "Memory32">>,
       <<"sock_status", "sock_status", "Memory32">>,
       <<"sock_addr_local", "sock_addr_local", "Memory32">>,
       <<"sock_addr_peer", "sock_addr_peer", "Memory32">>,
       <<"sock_open", "sock_open", "Memory32">>,
       <<"sock_set_opt_flag", "sock_set_opt_flag", "none">>,
       <<"sock_get_opt_flag", "sock_get_opt_flag", "Memory32">>,
       <<"sock_set_opt_time", "sock_set_opt_time", "Memory32">>,
       <<"sock_get_opt_time", "sock_get_opt_time", "Memory32">>,
       <<"sock_set_opt_size", "sock_set_opt_size", "none">>,
       <<"sock_get_opt_size", "sock_get_opt_size", "Memory32">>,
       <<"sock_join_multicast_v4", "sock_join_multicast_v4", "Memory32">>,
       <<"sock_leave_multicast_v4", "sock_leave_multicast_v4", "Memory32">>,
       <<"sock_join_multicast_v6", "sock_join_multicast_v6", "Memory32">>,
       <<"sock_leave_multicast_v6", "sock_leave_multicast_v6", "Memory32">>,
       <<"sock_bind", "sock_bind", "Memory32">>,
       <<"sock_listen", "sock_listen", "Memory32">>,
       <<"sock_accept", "sock_accept", "Memory32">>,
       <<"sock_connect", "sock_connect", "Memory32">>,
       <<"sock_recv", "sock_recv", "Memory32">>,
       <<"sock_recv_from", "sock_recv_from", "Memory32">>,
       <<"sock_send", "sock_send", "Memory32">>,
       <<"sock_send_to", "sock_send_to", "Memory32">>,
       <<"sock_send_file", "sock_send_file", "Memory32">>,
       <<"sock_shutdown", "sock_shutdown", "none">>,
       <<"resolve", "resolve", "Memory32">> >>

\* the namespace! { ... } literal of wasix_exports_64
namespace_wasix_64 ==
    << <<"args_get", "args_get", "Memory64">>,
       <<"args_sizes_get", "args_sizes_get", "Memory64">>,
       <<"clock_res_get", "clock_res_get", "Memory64">>,
       <<"clock_time_get", "clock_time_get", "Memory64">>,
       <<"clock_time_set", "clock_time_set", "Memory64">>,
       <<"environ_get", "environ_get", "Memory64">>,
       <<"environ_sizes_get", "environ_sizes_get", "Memory64">>,
       <<"fd_advise", "fd_advise", "none">>,
       <<"fd_allocate", "fd_allocate", "none">>,
       <<"fd_close", "fd_close", "none">>,
       <<"fd_datasync", "fd_datasync", "none">>,
       <<"fd_fdstat_get", "fd_fdstat_get", "Memory64">>,
       <<"fd_fdstat_set_flags", "fd_fdstat_set_flags", "none">>,
       <<"fd_fdstat_set_rights", "fd_fdstat_set_rights", "none">>,
       <<"fd_filestat_get", "fd_filestat_get", "Memory64">>,
       <<"fd_filestat_set_size", "fd_filestat_set_size", "none">>,
       <<"fd_filestat_set_times", "fd_filestat_set_times", "none">>,
       <<"fd_pread", "fd_pread", "Memory64">>,
       <<"fd_prestat_get", "fd_prestat_get", "Memory64">>,
       <<"fd_prestat_dir_name", "fd_prestat_dir_name", "Memory64">>,
       <<"fd_pwrite", "fd_pwrite", "Memory64">>,
       <<"fd_read", "fd_read", "Memory64">>,
       <<"fd_readdir", "fd_readdir", "Memory64">>,
       <<"fd_renumber", "fd_renumber", "none">>,
       <<"fd_dup", "fd_dup", "Memory64">>,
       <<"fd_event", "fd_event", "Memory64">>,
       <<"fd_seek", "fd_seek", "Memory64">>,
       <<"fd_sync", "fd_sync", "none">>,
       <<"fd_tell", "fd_tell", "Memory64">>,
       <<"fd_write", "fd_write", "Memory64">>,
       <<"fd_pipe", "fd_pipe", "Memory64">>,
       <<"path_create_directory", "path_create_directory", "Memory64">>,
       <<"path_filestat_get", "path_filestat_get", "Memory64">>,
       <<"path_filestat_set_times", "path_filestat_set_times", "Memory64">>,
       <<"path_link", "path_link", "Memory64">>,
       <<"path_open", "path_open", "Memory64">>,
       <<"path_readlink", "path_readlink", "Memory64">>,
       <<"path_remove_directory", "path_remove_directory", "Memory64">>,
       <<"path_rename", "path_rename", "Memory64">>,
       <<"path_symlink", "path_symlink", "Memory64">>,
       <<"path_unlink_file", "path_unlink_file", "Memory64">>,
       <<"poll_oneoff", "poll_oneoff", "Memory64">>,
       <<"proc_exit", "proc_exit", "Memory64">>,
       <<"proc_fork", "proc_fork", "Memory64">>,
       <<"proc_join", "proc_join", "Memory64">>,
       <<"proc_signal", "proc_signal", "Memory64">>,
       <<"proc_exec", "proc_exec", "Memory64">>,
       <<"proc_raise", "proc_raise", "none">>,
       <<"proc_raise_interval", "proc_raise_interval", "none">>,
       <<"proc_spawn", "proc_spawn", "Memory64">>,
       <<"proc_id", "proc_id", "Memory64">>,
       <<"proc_parent", "proc_parent", "Memory64">>,
       <<"random_get", "random_get", "Memory64">>,
       <<"tty_get", "tty_get", "Memory64">>,
       <<"tty_set", "tty_set", "Memory64">>,
       <<"getcwd", "getcwd", "Memory64">>,
       <<"chdir", "chdir", "Memory64">>,
       <<"callback_signal", "callback_signal", "Memory64">>,
       <<"callback_thread", "callback_thread", "Memory64">>,
       <<"callback_reactor", "callback_reactor", "Memory64">>,
       <<"callback_thread_local_destroy", "callback_thread_local_destroy", "Memory64">>,
       <<"thread_spawn", "thread_spawn", "Memory64">>,
       <<"thread_local_create", "thread_local_create", "Memory64">>,
       <<"thread_local_destroy", "thread_local_destroy", "none">>,
       <<"thread_local_set", "thread_local_set", "none">>,
       <<"thread_local_get", "thread_local_get", "Memory64">>,
       <<"thread_sleep", "thread_sleep", "none">>,
       <<"thread_id", "thread_id", "Memory64">>,
       <<"thread_signal", "thread_signal", "none">>,
       <<"thread_join", "thread_join", "none">>,
       <<"thread_parallelism", "thread_parallelism", "Memory64">>,
       <<"thread_exit", "thread_exit", "none">>,
       <<"sched_yield", "sched_yield", "none">>,
       <<"stack_checkpoint", "stack_checkpoint", "Memory64">>,
       <<"stack_restore", "stack_restore", "Memory64">>,
       <<"futex_wait", "futex_wait", "Memory64">>,
       <<"futex_wake", "futex_wake", "Memory64">>,
       <<"futex_wake_all", "futex_wake_all", "Memory64">>,
       <<"bus_open_local", "bus_open_local", "Memory64">>,
       <<"bus_open_remote", "bus_open_remote", "Memory64">>,
       <<"bus_close", "bus_close", "none">>,
       <<"bus_call", "bus_call", "Memory64">>,
       <<"bus_subcall", "bus_subcall", "Memory64">>,
       <<"bus_poll", "bus_poll", "Memory64">>,
       <<"call_reply", "call_reply", "Memory64">>,
       <<"call_fault", "call_fault", "none">>,
       <<"call_close", "call_close", "none">>,
       <<"ws_connect", "ws_connect", "Memory64">>,
       <<"http_request", "http_request", "Memory64">>,
       <<"http_status", "http_status", "Memory64">>,
       <<"port_bridge", "port_bridge", "Memory64">>,
       <<"port_unbridge", "port_unbridge", "none">>,
       <<"port_dhcp_acquire", "port_dhcp_acquire", "none">>,
       <<"port_addr_add", "port_addr_add", "Memory64">>,
       <<"port_addr_remove", "port_addr_remove", "Memory64">>,
       <<"port_addr_clear", "port_addr_clear", "none">>,
       <<"port_addr_list", "port_addr_list", "Memory64">>,
       <<"port_mac", "port_mac", "Memory64">>,
       <<"port_gateway_set", "port_gateway_set", "Memory64">>,
       <<"port_route_add", "port_route_add", "Memory64">>,
       <<"port_route_remove", "port_route_remove", "Memory64">>,
       <<"port_route_clear", "port_route_clear", "none">>,
       <<"port_route_list", "port_route_list", "Memory64">>,
       <<"sock_status", "sock_status", "Memory64">>,
       <<"sock_addr_local", "sock_addr_local", "Memory64">>,
       <<"sock_addr_peer", "sock_addr_peer", "Memory64">>,
       <<"sock_open", "sock_open", "Memory64">>,
       <<"sock_set_opt_flag", "sock_set_opt_flag", "none">>,
       <<"sock_get_opt_flag", "sock_get_opt_flag", "Memory64">>,
       <<"sock_set_opt_time", "sock_set_opt_time", "Memory64">>,
       <<"sock_get_opt_time", "sock_get_opt_time", "Memory64">>,
       <<"sock_set_opt_size", "sock_set_opt_size", "none">>,
       <<"sock_get_opt_size", "sock_get_opt_size", "Memory64">>,
       <<"sock_join_multicast_v4", "sock_join_multicast_v4", "Memory64">>,
       <<"sock_leave_multicast_v4", "sock_leave_multicast_v4", "Memory64">>,
       <<"sock_join_multicast_v6", "sock_join_multicast_v6", "Memory64">>,
       <<"sock_leave_multicast_v6", "sock_leave_multicast_v6", "Memory64">>,
       <<"sock_bind", "sock_bind", "Memory64">>,
       <<"sock_listen", "sock_listen", "Memory64">>,
       <<"sock_accept", "sock_accept", "Memory64">>,
       <<"sock_connect", "sock_connect", "Memory64">>,
       <<"sock_recv", "sock_recv", "Memory64">>,
       <<"sock_recv_from", "sock_recv_from", "Memory64">>,
       <<"sock_send", "sock_send", "Memory64">>,
       <<"sock_send_to", "sock_send_to", "Memory64">>,
       <<"sock_send_file", "sock_send_file", "Memory64">>,
       <<"sock_shutdown", "sock_shutdown", "none">>,
       <<"resolve", "resolve", "Memory64">> >>


\* a namespace that lists fd_seek twice: the legacy line and the current one
wasi_unstable_exports_twice ==
    Append(namespace_wasi_unstable, <<"fd_seek", "fd_seek", "Memory32">>)

\* a 64-bit namespace with one line left at the 32-bit width
wasix_exports_64_one_32 ==
    [i \in DOMAIN namespace_wasix_64 |->
        IF namespace_wasix_64[i][1] = "sock_send_file"
        THEN <<"sock_send_file", "sock_send_file", "Memory32">>
        ELSE namespace_wasix_64[i]]

\* a table with the line of one name rewritten
WithLine(table, line) ==
    [i \in DOMAIN table |-> IF table[i][1] = line[1] THEN line ELSE table[i]]

\* a table without the line of one name
WithoutLine(table, name) ==
    SelectSeq(table, LAMBDA e : e[1] # name)

\* a legacy namespace whose fd_seek line was copied from the current generation
wasi_unstable_exports_current_seek ==
    WithLine(namespace_wasi_unstable, <<"fd_seek", "fd_seek", "Memory32">>)

\* a preview1 namespace whose fd_tell line binds the function of the line above it
wasi_snapshot_preview1_exports_tell_sync ==
    WithLine(namespace_wasi_snapshot_preview1, <<"fd_tell", "fd_sync", "none">>)

\* a preview1 namespace that lost its sock_shutdown line
wasi_snapshot_preview1_exports_no_sock_shutdown ==
    WithoutLine(namespace_wasi_snapshot_preview1, "sock_shutdown")

\* a 32-bit wasix namespace that lost its proc_raise line
wasix_exports_32_no_proc_raise ==
    WithoutLine(namespace_wasix_32, "proc_raise")

\* a 32-bit wasix namespace with one line at the 64-bit width
wasix_exports_32_one_64 ==
    WithLine(namespace_wasix_32, <<"futex_wake", "futex_wake", "Memory64">>)

\* the namespace builders: each returns the namespace of its literal
wasi_unstable_exports == namespace_wasi_unstable

wasi_snapshot_preview1_exports == namespace_wasi_snapshot_preview1

wasix_exports_32 == namespace_wasix_32

wasix_exports_64 == namespace_wasix_64

\* the table of a namespace builder
Builder(b) ==
    CASE b = "wasi_unstable_exports" -> wasi_unstable_exports
      [] b = "wasi_snapshot_preview1_exports" -> wasi_snapshot_preview1_exports
      [] b = "wasix_exports_32" -> wasix_exports_32
      [] b = "wasix_exports_64" -> wasix_exports_64

\* Exports::insert: the binding of a name already present is replaced
ExportsInsert(exports, e) ==
    [n \in DOMAIN exports \cup {EntryName(e)} |->
        IF n = EntryName(e) THEN EntryBinding(e) ELSE exports[n]]

\* Imports::register_namespace: every export is stored under <<namespace, name>>
RegisterNamespace(imports, key, exports) ==
    [k \in DOMAIN imports \cup {<<key, n>> : n \in DOMAIN exports} |->
        IF k[1] = key /\ k[2] \in DOMAIN exports THEN exports[k[2]] ELSE imports[k]]

\* imports! { key => exports, ... }: the namespaces are registered in order
RECURSIVE ImportsOf(_)
ImportsOf(pairs) ==
    IF pairs = <<>> THEN <<>>
    ELSE RegisterNamespace(ImportsOf(SubSeq(pairs, 1, Len(pairs) - 1)),
                           pairs[Len(pairs)][1], pairs[Len(pairs)][2])

\* the namespaces a top-level function builds: <<key of imports!, builder called>>
generate_import_object_snapshot0 ==
    << <<"wasi_unstable", "wasi_unstable_exports">> >>

generate_import_object_snapshot1 ==
    << <<"wasi_snapshot_preview1", "wasi_snapshot_preview1_exports">> >>

generate_import_object_wasix32_v1 ==
    << <<"wasix_32v1", "wasix_exports_32">> >>

generate_import_object_wasix64_v1 ==
    << <<"wasix_64v1", "wasix_exports_64">> >>

\* a registry that takes Latest for the newest generation
generate_import_object_from_env_latest_wasix(version) ==
    CASE version = "Snapshot0" -> generate_import_object_snapshot0
      [] version = "Snapshot1" -> generate_import_object_snapshot1
      [] version \in {"Wasix32v1", "Latest"} -> generate_import_object_wasix32_v1
      [] version = "Wasix64v1" -> generate_import_object_wasix64_v1

generate_import_object_from_env(version) ==
    CASE version = "Snapshot0" -> generate_import_object_snapshot0
      [] version \in {"Snapshot1", "Latest"} -> generate_import_object_snapshot1
      [] version = "Wasix32v1" -> generate_import_object_wasix32_v1
      [] version = "Wasix64v1" -> generate_import_object_wasix64_v1

\* an all-versions table whose last line names the 32-bit exports again
import_object_for_all_wasi_versions_32_twice ==
    << <<"wasi_unstable", "wasi_unstable_exports">>,
       <<"wasi_snapshot_preview1", "wasi_snapshot_preview1_exports">>,
       <<"wasix_32v1", "wasix_exports_32">>,
       <<"wasix_64v1", "wasix_exports_32">> >>

\* an all-versions table that registers the exports of the first and the third
\* line under each other's key
import_object_for_all_wasi_versions_swapped ==
    << <<"wasi_unstable", "wasix_exports_32">>,
       <<"wasi_snapshot_preview1", "wasi_snapshot_preview1_exports">>,
       <<"wasix_32v1", "wasi_unstable_exports">>,
       <<"wasix_64v1", "wasix_exports_64">> >>

import_object_for_all_wasi_versions ==
    << <<"wasi_unstable", "wasi_unstable_exports">>,
       <<"wasi_snapshot_preview1", "wasi_snapshot_preview1_exports">>,
       <<"wasix_32v1", "wasix_exports_32">>,
       <<"wasix_64v1", "wasix_exports_64">> >>

\* the top-level calls: one per version, and "all" for the all-versions table;
\* the <<key, builder>> pairs of a call
CallPairs(call) ==
    IF call = "all" THEN import_object_for_all_wasi_versions
                    ELSE generate_import_object_from_env(call)

InitImports ==
    /\ rcall = "none"
    /\ rqueue = <<>>
    /\ ridx = 0
    /\ rns = <<>>
    /\ rexports = <<>>
    /\ built = <<>>

\* generate_import_object_from_env(store, ctx, version) is called.  Every call is
\* followed once: the builders read no state, a second call builds the same table.
GenerateImportObjectFromEnv(version) ==
    /\ rcall = "none"
    /\ version \notin DOMAIN built
    /\ rcall' = version
    /\ rqueue' = CallPairs(version)
    /\ UNCHANGED <<ridx, rns, rexports, built, callerVars, errorVars, forkVars>>

\* import_object_for_all_wasi_versions(store, env) is called
ImportObjectForAllWasiVersions ==
    /\ rcall = "none"
    /\ "all" \notin DOMAIN built
    /\ rcall' = "all"
    /\ rqueue' = CallPairs("all")
    /\ UNCHANGED <<ridx, rns, rexports, built, callerVars, errorVars, forkVars>>

\* one line of namespace! { ... }: namespace.insert(name, function)
NamespaceInsert ==
    /\ rcall # "none"
    /\ rqueue # <<>>
    /\ ridx < Len(Builder(rqueue[1][2]))
    /\ rns' = ExportsInsert(rns, Builder(rqueue[1][2])[ridx + 1])
    /\ ridx' = ridx + 1
    /\ UNCHANGED <<rcall, rqueue, rexports, built, callerVars, errorVars, forkVars>>

\* the builder returns its namespace
BuilderReturn ==
    /\ rcall # "none"
    /\ rqueue # <<>>
    /\ ridx = Len(Builder(rqueue[1][2]))
    /\ rexports' = Append(rexports, <<rqueue[1][1], rns>>)
    /\ rqueue' = Tail(rqueue)
    /\ rns' = <<>>
    /\ ridx' = 0
    /\ UNCHANGED <<rcall, built, callerVars, errorVars, forkVars>>

\* imports! { ... } and the return of the top-level call
ImportsReturn ==
    /\ rcall # "none"
    /\ rqueue = <<>>
    /\ built' = (rcall :> ImportsOf(rexports)) @@ built
    /\ rcall' = "none"
    /\ rexports' = <<>>
    /\ UNCHANGED <<rqueue, ridx, rns, callerVars, errorVars, forkVars>>

NextImports ==
    \/ \E version \in WasiVersion : GenerateImportObjectFromEnv(version)
    \/ ImportObjectForAllWasiVersions
    \/ NamespaceInsert
    \/ BuilderReturn
    \/ ImportsReturn

(***************************************************************************)
(* The specifications.                                                     *)
(***************************************************************************)
(***************************************************************************)
(* The fork continuation snapshot.  lib.rs declares the structure          *)
(* (WasiVFork); the system calls that capture, realize and drop it are     *)
(* outside this file and are modelled from the specification of the        *)
(* snapshot: capture moves the environment of the guest into the snapshot, *)
(* the snapshot is handed from thread to thread by move, it is consumed by *)
(* the realization of the fork or by its drop, and the destruction of its  *)
(* handle is the signal that the forked thread is dead.                    *)
(***************************************************************************)
Forks == 1 .. MaxForks

\* no fork was requested: the guest holds its environment, there is no handle
InitFork ==
    vfork = [s \in Forks |->
                [handed |-> FALSE, holders |-> {}, env |-> {"parent"}, handle |-> "none",
                 pid_written |-> FALSE, resumed |-> {}, dropped |-> {},
                 signalled |-> 0, observed |-> 0]]

\* thread p asks for the duplication of its guest: the WasiVFork is built on p,
\* env takes the environment of the guest by move, handle is the handle of the
\* forked thread, pid_offset is recorded and nothing is written at it
ProcFork(s, p) ==
    /\ vfork[s].handle = "none"
    /\ vfork' = [vfork EXCEPT ![s].holders = {p},
                              ![s].env = (@ \ {"parent"}) \cup {"snapshot"},
                              ![s].handle = "live"]
    /\ UNCHANGED <<callerVars, errorVars, importVars>>

\* a hand-over that leaves a copy of the snapshot with the thread handing it over
Handoff_keeps_copy(s, t, u) ==
    /\ t \in vfork[s].holders
    /\ u # t
    /\ vfork' = [vfork EXCEPT ![s].holders = @ \cup {u},
                              ![s].handed = TRUE]
    /\ UNCHANGED <<callerVars, errorVars, importVars>>

\* the snapshot is handed by thread t to thread u: a move, t holds it no more
Handoff(s, t, u) ==
    /\ t \in vfork[s].holders
    /\ u # t
    /\ vfork' = [vfork EXCEPT ![s].holders = (@ \ {t}) \cup {u},
                              ![s].handed = TRUE]
    /\ UNCHANGED <<callerVars, errorVars, importVars>>

\* the fork is realized on thread t, which holds the snapshot: the identifier of
\* the child is written at pid_offset, the execution is resumed from the captured
\* stacks with the captured environment, and the handle lives on with the
\* resumed thread; the snapshot is consumed
RealizeFork(s, t) ==
    /\ t \in vfork[s].holders
    /\ vfork' = [vfork EXCEPT ![s].holders = @ \ {t},
                              ![s].env = (@ \ {"snapshot"}) \cup {"child"},
                              ![s].pid_written = TRUE,
                              ![s].resumed = @ \cup {t}]
    /\ UNCHANGED <<callerVars, errorVars, importVars>>

\* a drop that forgets the handle of the forked thread
DropSnapshot_leaks_handle(s, t) ==
    /\ t \in vfork[s].holders
    /\ vfork' = [vfork EXCEPT ![s].holders = @ \ {t},
                              ![s].env = @ \ {"snapshot"},
                              ![s].dropped = @ \cup {t}]
    /\ UNCHANGED <<callerVars, errorVars, importVars>>

\* the fork is abandoned: thread t, which holds the snapshot, drops it; the drop
\* of env releases the environment and the drop of handle signals that the
\* forked thread is dead
DropSnapshot(s, t) ==
    /\ t \in vfork[s].holders
    /\ vfork' = [vfork EXCEPT ![s].holders = @ \ {t},
                              ![s].env = @ \ {"snapshot"},
                              ![s].handle = "destroyed",
                              ![s].signalled = @ + 1,
                              ![s].dropped = @ \cup {t}]
    /\ UNCHANGED <<callerVars, errorVars, importVars>>

\* the thread resumed from the snapshot ends: its handle is dropped
ForkedThreadExit(s) ==
    /\ vfork[s].resumed # {}
    /\ vfork[s].handle = "live"
    /\ vfork' = [vfork EXCEPT ![s].handle = "destroyed",
                              ![s].signalled = @ + 1]
    /\ UNCHANGED <<callerVars, errorVars, importVars>>

\* the waiter on the handle observes a destruction it has not observed yet and
\* reports the forked thread as not live
WaiterObserve(s) ==
    /\ vfork[s].observed < vfork[s].signalled
    /\ vfork' = [vfork EXCEPT ![s].observed = @ + 1]
    /\ UNCHANGED <<callerVars, errorVars, importVars>>

NextFork ==
    \E s \in Forks :
        \/ \E p \in Threads : ProcFork(s, p)
        \/ \E t \in Threads : \E u \in Threads : Handoff(s, t, u)
        \/ \E t \in Threads : RealizeFork(s, t)
        \/ \E t \in Threads : DropSnapshot(s, t)
        \/ ForkedThreadExit(s)
        \/ WaiterObserve(s)

Init == InitCaller /\ InitErrors /\ InitImports /\ InitFork

Next == NextCaller \/ NextErrors \/ NextImports \/ NextFork

Spec == Init /\ [][Next]_vars

\* a fresh process: the counter is 1 and no thread has asked for its identity
InitFreshProcess ==
    /\ InitFresh
    /\ pc = [t \in Threads |-> "idle"]
    /\ before = [t \in Threads |-> {}]
    /\ allocated = <<>>
    /\ InitErrors
    /\ InitImports
    /\ InitFork

\* the identity oracle alone, in a fresh or in a long-running process
SpecCaller == Init /\ [][NextCaller]_vars

\* the identity oracle alone, in a fresh process: the counter never wraps
SpecCallerFresh == InitFreshProcess /\ [][NextCaller]_vars

\* the error translators alone
SpecErrors == InitFreshProcess /\ [][NextErrors]_vars

\* the import registry alone
SpecImports == InitFreshProcess /\ [][NextImports]_vars

\* the fork continuation snapshots alone; the waiter on a handle is a thread of
\* its own and gets to run once the handle it waits for is destroyed
SpecFork ==
    /\ InitFreshProcess
    /\ [][NextFork]_vars
    /\ \A s \in Forks : WF_vars(WaiterObserve(s))

(***************************************************************************)
(* The properties.                                                         *)
(***************************************************************************)

\* the namespace keys of an import table
NamespaceKeys(imports) == {k[1] : k \in DOMAIN imports}

\* the names an import table holds under a namespace key
NamesUnder(imports, key) == {k[2] : k \in {j \in DOMAIN imports : j[1] = key}}

\* C1: no two threads ever receive the same identity from current_caller_id.
CallerIdsUnique ==
    \A t \in Threads : \A u \in Threads \ {t} :
        Range(rets[t]) \cap Range(rets[u]) = {}

\* C2: any two calls to current_caller_id on one thread return the same value.
CallerIdStable ==
    \A t \in Threads : Len(rets[t]) <= 1

\* C3: every identity current_caller_id returns is at least 1; 0 is never returned.
CallerIdAtLeastOne ==
    \A t \in Threads : \A id \in Range(rets[t]) :
        id # u32(0) /\ ~U32Less(id, u32(1))

\* C4: when thread a's first call returned before thread b's first call began,
\* a's identity is strictly smaller than b's.
CallerIdsIncrease ==
    \A b \in Threads : \A a \in before[b] :
        rets[b] # <<>> => U32Less(rets[a][1], rets[b][1])

\* C4, second half: two first calls that overlapped (neither had returned when the
\* other began) in a process whose counter has not wrapped, the thread of the
\* lower number having drawn the larger identity; by the symmetry of the threads
\* the other order is reached as well.
OverlapEitherOrder ==
    \E a \in Threads : \E b \in Threads \ {a} :
        /\ rets[a] # <<>> /\ rets[b] # <<>>
        /\ a \notin before[b] /\ b \notin before[a]
        /\ a < b
        /\ U32Less(rets[b][1], rets[a][1])
        /\ CALLER_ID_SEED = u32(3)

\* C5: mem_error_to_wasi gives HeapOutOfBounds Errno::Fault, Overflow
\* Errno::Overflow, NonUtf8String Errno::Inval and every other cause Errno::Inval,
\* every time.
MemErrorToWasiTable ==
    \A i \in DOMAIN errlog :
        errlog[i][1] = "mem_error_to_wasi" =>
            /\ errlog[i][2] = "HeapOutOfBounds" => errlog[i][3] = "Errno::Fault"
            /\ errlog[i][2] = "Overflow" => errlog[i][3] = "Errno::Overflow"
            /\ errlog[i][2] = "NonUtf8String" => errlog[i][3] = "Errno::Inval"
            /\ errlog[i][2] \notin {"HeapOutOfBounds", "Overflow", "NonUtf8String"}
                  => errlog[i][3] = "Errno::Inval"
            /\ \A j \in DOMAIN errlog :
                  errlog[j][1] = errlog[i][1] /\ errlog[j][2] = errlog[i][2]
                      => errlog[j][3] = errlog[i][3]

\* C5: every cause has been translated by mem_error_to_wasi.
MemErrorToWasiAllCauses ==
    \A err \in MemoryAccessError : \E i \in DOMAIN errlog :
        errlog[i][1] = "mem_error_to_wasi" /\ errlog[i][2] = err

\* C6: mem_error_to_bus gives HeapOutOfBounds and Overflow BusErrno::Memviolation,
\* NonUtf8String BusErrno::Badrequest and every other cause BusErrno::Unknown,
\* every time.
MemErrorToBusTable ==
    \A i \in DOMAIN errlog :
        errlog[i][1] = "mem_error_to_bus" =>
            /\ errlog[i][2] = "HeapOutOfBounds" => errlog[i][3] = "BusErrno::Memviolation"
            /\ errlog[i][2] = "Overflow" => errlog[i][3] = "BusErrno::Memviolation"
            /\ errlog[i][2] = "NonUtf8String" => errlog[i][3] = "BusErrno::Badrequest"
            /\ errlog[i][2] \notin {"HeapOutOfBounds", "Overflow", "NonUtf8String"}
                  => errlog[i][3] = "BusErrno::Unknown"
            /\ \A j \in DOMAIN errlog :
                  errlog[j][1] = errlog[i][1] /\ errlog[j][2] = errlog[i][2]
                      => errlog[j][3] = errlog[i][3]

\* C6: every cause has been translated by mem_error_to_bus.
MemErrorToBusAllCauses ==
    \A err \in MemoryAccessError : \E i \in DOMAIN errlog :
        errlog[i][1] = "mem_error_to_bus" /\ errlog[i][2] = err

\* C7: the table generate_import_object_from_env returns has exactly one namespace
\* key: wasi_unstable for Snapshot0, wasi_snapshot_preview1 for Snapshot1 and for
\* Latest (the two tables being equal), wasix_32v1 for Wasix32v1 and wasix_64v1
\* for Wasix64v1.
OneNamespacePerVersion ==
    /\ "Snapshot0" \in DOMAIN built
          => NamespaceKeys(built["Snapshot0"]) = {"wasi_unstable"}
    /\ "Snapshot1" \in DOMAIN built
          => NamespaceKeys(built["Snapshot1"]) = {"wasi_snapshot_preview1"}
    /\ "Latest" \in DOMAIN built
          => NamespaceKeys(built["Latest"]) = {"wasi_snapshot_preview1"}
    /\ "Wasix32v1" \in DOMAIN built
          => NamespaceKeys(built["Wasix32v1"]) = {"wasix_32v1"}
    /\ "Wasix64v1" \in DOMAIN built
          => NamespaceKeys(built["Wasix64v1"]) = {"wasix_64v1"}
    /\ {"Snapshot1", "Latest"} \subseteq DOMAIN built
          => built["Snapshot1"] = built["Latest"]

\* C7: generate_import_object_from_env has returned for every version.
EveryVersionBuilt ==
    WasiVersion \subseteq DOMAIN built

\* the version whose single-version table holds a namespace key
VersionOfKey(key) ==
    CASE key = "wasi_unstable" -> "Snapshot0"
      [] key = "wasi_snapshot_preview1" -> "Snapshot1"
      [] key = "wasix_32v1" -> "Wasix32v1"
      [] key = "wasix_64v1" -> "Wasix64v1"

\* C8: the all-versions table has exactly the keys wasi_unstable,
\* wasi_snapshot_preview1, wasix_32v1 and wasix_64v1, and under each key exactly
\* the names and bindings of the single-version table of that key.
AllVersionsTable ==
    "all" \in DOMAIN built =>
        /\ NamespaceKeys(built["all"]) =
              {"wasi_unstable", "wasi_snapshot_preview1", "wasix_32v1", "wasix_64v1"}
        /\ \A key \in NamespaceKeys(built["all"]) :
              VersionOfKey(key) \in DOMAIN built =>
                  /\ {k \in DOMAIN built["all"] : k[1] = key}
                        = DOMAIN built[VersionOfKey(key)]
                  /\ \A k \in DOMAIN built[VersionOfKey(key)] :
                        built["all"][k] = built[VersionOfKey(key)][k]

\* C8: the all-versions table and the four single-version tables are all built.
AllAndSingleBuilt ==
    {"all", "Snapshot0", "Snapshot1", "Wasix32v1", "Wasix64v1"} \subseteq DOMAIN built

\* C9: no namespace lists a name twice: every insertion of a builder adds a new
\* name, so the namespace under construction holds as many names as lines were
\* inserted, and every finished namespace as many as its builder has lines.
NamesUnique ==
    /\ Cardinality(DOMAIN rns) = ridx
    /\ \A i \in DOMAIN rexports :
          Cardinality(DOMAIN rexports[i][2]) = Len(Builder(CallPairs(rcall)[i][2]))

\* C9: the four builders have run, the last one to its last line.
AllBuildersRan ==
    /\ rcall = "all"
    /\ Len(rexports) = 3
    /\ rqueue # <<>>
    /\ ridx = Len(Builder(rqueue[1][2]))
    /\ ridx > 0

\* C10: wasix_32v1 and wasix_64v1 hold the same names; under every name both bind
\* the same function, without a memory size in both or else at Memory32 in
\* wasix_32v1 exactly when at Memory64 in wasix_64v1.
Wasix32And64Agree ==
    {"Wasix32v1", "Wasix64v1"} \subseteq DOMAIN built =>
        /\ NamesUnder(built["Wasix32v1"], "wasix_32v1")
              = NamesUnder(built["Wasix64v1"], "wasix_64v1")
        /\ \A n \in NamesUnder(built["Wasix32v1"], "wasix_32v1") :
              LET b32 == built["Wasix32v1"][<<"wasix_32v1", n>>]
                  b64 == built["Wasix64v1"][<<"wasix_64v1", n>>]
              IN  /\ b32.function = b64.function
                  /\ b32.memory = "none" <=> b64.memory = "none"
                  /\ b32.memory = "none" => b32 = b64
                  /\ b32.memory = "Memory32" <=> b64.memory = "Memory64"

\* C10: both wasix tables are built, with names of both kinds in them.
BothWasixBuilt ==
    /\ {"Wasix32v1", "Wasix64v1"} \subseteq DOMAIN built
    /\ \E n \in NamesUnder(built["Wasix32v1"], "wasix_32v1") :
          built["Wasix32v1"][<<"wasix_32v1", n>>].memory = "none"
    /\ \E n \in NamesUnder(built["Wasix64v1"], "wasix_64v1") :
          built["Wasix64v1"][<<"wasix_64v1", n>>].memory = "Memory64"

\* the four names wasi_unstable binds to legacy implementations
LegacyNames == {"fd_filestat_get", "fd_seek", "path_filestat_get", "poll_oneoff"}

\* C11: in wasi_unstable the names fd_filestat_get, fd_seek, path_filestat_get and
\* poll_oneoff are bound to the legacy::snapshot0 functions, which are not the
\* functions wasi_snapshot_preview1 binds under these names.
LegacyBindings ==
    /\ "Snapshot0" \in DOMAIN built =>
          /\ built["Snapshot0"][<<"wasi_unstable", "fd_filestat_get">>].function
                = "legacy::snapshot0::fd_filestat_get"
          /\ built["Snapshot0"][<<"wasi_unstable", "fd_seek">>].function
                = "legacy::snapshot0::fd_seek"
          /\ built["Snapshot0"][<<"wasi_unstable", "path_filestat_get">>].function
                = "legacy::snapshot0::path_filestat_get"
          /\ built["Snapshot0"][<<"wasi_unstable", "poll_oneoff">>].function
                = "legacy::snapshot0::poll_oneoff"
    /\ {"Snapshot0", "Snapshot1"} \subseteq DOMAIN built =>
          \A n \in LegacyNames :
              built["Snapshot0"][<<"wasi_unstable", n>>].function
                 # built["Snapshot1"][<<"wasi_snapshot_preview1", n>>].function

\* C11: the tables of Snapshot0 and of Snapshot1 are built and hold the four names.
LegacyBothBuilt ==
    /\ {"Snapshot0", "Snapshot1"} \subseteq DOMAIN built
    /\ LegacyNames \subseteq NamesUnder(built["Snapshot0"], "wasi_unstable")
    /\ LegacyNames \subseteq NamesUnder(built["Snapshot1"], "wasi_snapshot_preview1")

\* C12: a name held by wasi_unstable and wasi_snapshot_preview1 is bound to the
\* same function in both exactly when it is none of the four legacy names, and a
\* name held by wasi_snapshot_preview1 and by wasix_32v1 or wasix_64v1 is bound
\* to the same function in both.
SharedNamesSameFunction ==
    /\ {"Snapshot0", "Snapshot1"} \subseteq DOMAIN built =>
          \A n \in NamesUnder(built["Snapshot0"], "wasi_unstable")
                     \cap NamesUnder(built["Snapshot1"], "wasi_snapshot_preview1") :
              (built["Snapshot0"][<<"wasi_unstable", n>>].function
                  = built["Snapshot1"][<<"wasi_snapshot_preview1", n>>].function)
                 <=> n \notin LegacyNames
    /\ {"Snapshot1", "Wasix32v1"} \subseteq DOMAIN built =>
          \A n \in NamesUnder(built["Snapshot1"], "wasi_snapshot_preview1")
                     \cap NamesUnder(built["Wasix32v1"], "wasix_32v1") :
              built["Snapshot1"][<<"wasi_snapshot_preview1", n>>].function
                 = built["Wasix32v1"][<<"wasix_32v1", n>>].function
    /\ {"Snapshot1", "Wasix64v1"} \subseteq DOMAIN built =>
          \A n \in NamesUnder(built["Snapshot1"], "wasi_snapshot_preview1")
                     \cap NamesUnder(built["Wasix64v1"], "wasix_64v1") :
              built["Snapshot1"][<<"wasi_snapshot_preview1", n>>].function
                 = built["Wasix64v1"][<<"wasix_64v1", n>>].function

\* C12: the four generations are built, and each pair compared shares names.
FourGenerationsBuilt ==
    /\ {"Snapshot0", "Snapshot1", "Wasix32v1", "Wasix64v1"} \subseteq DOMAIN built
    /\ "fd_seek" \in NamesUnder(built["Snapshot0"], "wasi_unstable")
                        \cap NamesUnder(built["Snapshot1"], "wasi_snapshot_preview1")
                        \cap NamesUnder(built["Wasix32v1"], "wasix_32v1")
                        \cap NamesUnder(built["Wasix64v1"], "wasix_64v1")
    /\ "fd_read" \in NamesUnder(built["Snapshot0"], "wasi_unstable")
                        \cap NamesUnder(built["Snapshot1"], "wasi_snapshot_preview1")

\* C13: every name of wasi_snapshot_preview1 is a name of wasix_32v1, and
\* wasix_32v1 holds names wasi_snapshot_preview1 does not: those of the process
\* (fork, join, spawn, exec, signal), thread and thread-local, futex, bus and
\* call, HTTP and WebSocket, port and extended socket entry points.
WasixExtendsPreview1 ==
    {"Snapshot1", "Wasix32v1"} \subseteq DOMAIN built =>
        LET preview1 == NamesUnder(built["Snapshot1"], "wasi_snapshot_preview1")
            wasix == NamesUnder(built["Wasix32v1"], "wasix_32v1")
        IN  /\ preview1 \subseteq wasix
            /\ preview1 # wasix
            /\ {"proc_fork", "proc_join", "proc_spawn", "proc_exec", "proc_signal",
                "thread_spawn", "thread_sleep", "thread_id", "thread_signal",
                "thread_join", "thread_parallelism", "thread_exit",
                "thread_local_create", "thread_local_destroy", "thread_local_set",
                "thread_local_get",
                "futex_wait", "futex_wake", "futex_wake_all",
                "bus_open_local", "bus_open_remote", "bus_close", "bus_call",
                "bus_subcall", "bus_poll", "call_reply", "call_fault", "call_close",
                "http_request", "http_status", "ws_connect",
                "port_bridge", "port_unbridge", "port_dhcp_acquire", "port_addr_add",
                "port_addr_remove", "port_addr_clear", "port_addr_list", "port_mac",
                "port_gateway_set", "port_route_add", "port_route_remove",
                "port_route_clear", "port_route_list",
                "sock_status", "sock_addr_local", "sock_addr_peer", "sock_open",
                "sock_set_opt_flag", "sock_get_opt_flag", "sock_set_opt_time",
                "sock_get_opt_time", "sock_set_opt_size", "sock_get_opt_size",
                "sock_join_multicast_v4", "sock_leave_multicast_v4",
                "sock_join_multicast_v6", "sock_leave_multicast_v6",
                "sock_bind", "sock_listen", "sock_accept", "sock_connect",
                "sock_recv_from", "sock_send_to", "sock_send_file"}
                  \subseteq wasix \ preview1

\* C13: the tables of Snapshot1 and of Wasix32v1 are built, neither empty.
Preview1AndWasix32Built ==
    /\ {"Snapshot1", "Wasix32v1"} \subseteq DOMAIN built
    /\ NamesUnder(built["Snapshot1"], "wasi_snapshot_preview1") # {}
    /\ NamesUnder(built["Wasix32v1"], "wasix_32v1") # {}

\* C14: wasix_32v1 holds thread_spawn and futex_wait and wasi_unstable holds
\* neither, in the single-version tables and in the all-versions table.
ThreadSpawnAndFutexWait ==
    /\ "Wasix32v1" \in DOMAIN built =>
          {"thread_spawn", "futex_wait"}
             \subseteq NamesUnder(built["Wasix32v1"], "wasix_32v1")
    /\ "Snapshot0" \in DOMAIN built =>
          {"thread_spawn", "futex_wait"}
             \cap NamesUnder(built["Snapshot0"], "wasi_unstable") = {}
    /\ "all" \in DOMAIN built =>
          /\ {"thread_spawn", "futex_wait"}
                \subseteq NamesUnder(built["all"], "wasix_32v1")
          /\ {"thread_spawn", "futex_wait"}
                \cap NamesUnder(built["all"], "wasi_unstable") = {}

\* C14: the all-versions table and the tables of Snapshot0 and of Wasix32v1 are
\* built, wasi_unstable being held by two of them.
ScenarioTablesBuilt ==
    /\ {"all", "Snapshot0", "Wasix32v1"} \subseteq DOMAIN built
    /\ NamesUnder(built["all"], "wasi_unstable") # {}
    /\ NamesUnder(built["Snapshot0"], "wasi_unstable") # {}

\* the memory sizes an import table binds under a namespace key
MemoriesUnder(imports, key) ==
    {imports[k].memory : k \in {j \in DOMAIN imports : j[1] = key}}

\* C15: no entry point of wasi_unstable, wasi_snapshot_preview1 or wasix_32v1 is
\* bound at Memory64 and none of wasix_64v1 at Memory32, in every table built.
WidthPerNamespace ==
    \A call \in DOMAIN built :
        /\ "Memory64" \notin MemoriesUnder(built[call], "wasi_unstable")
        /\ "Memory64" \notin MemoriesUnder(built[call], "wasi_snapshot_preview1")
        /\ "Memory64" \notin MemoriesUnder(built[call], "wasix_32v1")
        /\ "Memory32" \notin MemoriesUnder(built[call], "wasix_64v1")

\* C15: every table is built, the four namespaces binding at their width.
EveryTableBuilt ==
    /\ DOMAIN built = WasiVersion \cup {"all"}
    /\ "Memory32" \in MemoriesUnder(built["all"], "wasi_unstable")
    /\ "Memory32" \in MemoriesUnder(built["all"], "wasi_snapshot_preview1")
    /\ "Memory32" \in MemoriesUnder(built["all"], "wasix_32v1")
    /\ "Memory64" \in MemoriesUnder(built["all"], "wasix_64v1")

\* thread t takes the fetch_add step of current_caller_id
Allocates(t) == pc[t] = "fetch_add" /\ pc'[t] = "return"

\* C18: an allocation is never refused, it hands out the value of the counter,
\* and it moves a counter that stands at u32::MAX to 0 and any other counter up.
WrapIsSilent ==
    /\ [](\A t \in Threads : pc[t] = "fetch_add" => ENABLED FetchAdd(t))
    /\ [][\A t \in Threads :
             Allocates(t) =>
                /\ CALLER_ID'[t] = CALLER_ID_SEED
                /\ CALLER_ID_SEED = U32_MAX => CALLER_ID_SEED' = u32(0)
                /\ CALLER_ID_SEED # U32_MAX => U32Less(CALLER_ID_SEED, CALLER_ID_SEED')]_vars

\* C18: the counter has wrapped, and a thread was then given the identity another
\* thread had been given before the wrap.
ReissuedAfterWrap ==
    /\ U32Less(CALLER_ID_SEED, u32(MaxThreads + 2))
    /\ \E t \in Threads : \E u \in Threads \ {t} :
          /\ u32(0) \in Range(rets[t])
          /\ \E v \in Range(rets[t]) \cap Range(rets[u]) : v # u32(0)

\* C19: a step of current_caller_id by a thread whose cell is not 0 leaves the
\* counter and the cell of every thread as they were.
CachedCallChangesNothing ==
    [][\A t \in Threads :
          (pc'[t] # pc[t] /\ CALLER_ID[t] # u32(0)) =>
             /\ CALLER_ID_SEED' = CALLER_ID_SEED
             /\ CALLER_ID' = CALLER_ID]_vars

\* C19: a thread stands at the return of a call it entered with its cell not 0:
\* the cell holds a value this thread has returned before.
CachedCallAtReturn ==
    \E t \in Threads :
        /\ pc[t] = "return"
        /\ CALLER_ID[t] # u32(0)
        /\ CALLER_ID[t] \in Range(rets[t])

\* C20: the allocation of thread t leaves the cell of every other thread as it
\* was, and the cell of a thread changes in no step but its own allocation.
AllocationWritesOwnCell ==
    [][/\ \A t \in Threads : Allocates(t) =>
             \A u \in Threads \ {t} : CALLER_ID'[u] = CALLER_ID[u]
       /\ \A u \in Threads : CALLER_ID'[u] # CALLER_ID[u] => Allocates(u)]_vars

\* C20: a thread has just allocated while another thread holds another identity.
AllocatedBesideOther ==
    \E t \in Threads : \E u \in Threads \ {t} :
        /\ pc[t] = "return"
        /\ CALLER_ID[t] \notin Range(rets[t])
        /\ CALLER_ID[u] # u32(0)
        /\ CALLER_ID[u] # CALLER_ID[t]

Issued ==
    UNION {Range(rets[t]) : t \in Threads}
       \cup {CALLER_ID[t] : t \in {u \in Threads : CALLER_ID[u] # u32(0)}}

\* C21: in a process whose counter has not wrapped, the counter is 1 plus the
\* number of allocations made, the k-th allocation handed out k, and the
\* identities issued are the numbers from 1 to the counter less 1.
CounterCountsAllocations ==
    /\ CALLER_ID_SEED = u32(1 + Len(allocated))
    /\ \A k \in 1 .. Len(allocated) : allocated[k] = u32(k)
    /\ Issued = {u32(k) : k \in 1 .. Len(allocated)}

\* C21: at least two allocations were made and the second was returned.
TwoAllocationsMade ==
    /\ Len(allocated) >= 2
    /\ \E t \in Threads : u32(2) \in Range(rets[t])

\* C22: wasi_unstable and wasi_snapshot_preview1 hold the same 45 names, and
\* every name but the four legacy names has the same binding in both.
UnstableAndPreview1SameNames ==
    {"Snapshot0", "Snapshot1"} \subseteq DOMAIN built =>
        LET unstable == NamesUnder(built["Snapshot0"], "wasi_unstable")
            preview1 == NamesUnder(built["Snapshot1"], "wasi_snapshot_preview1")
        IN  /\ unstable = preview1
            /\ Cardinality(unstable) = 45
            /\ Cardinality(LegacyNames \cap unstable) = 4
            /\ \A n \in unstable \cap preview1 :
                  built["Snapshot0"][<<"wasi_unstable", n>>]
                     # built["Snapshot1"][<<"wasi_snapshot_preview1", n>>]
                  <=> n \in LegacyNames

\* C22: the tables of Snapshot0 and of Snapshot1 are built, both holding args_get
\* and sock_shutdown, the first and the last line of the two builders.
FirstTwoGenerationsBuilt ==
    /\ {"Snapshot0", "Snapshot1"} \subseteq DOMAIN built
    /\ {"args_get", "sock_shutdown"}
          \subseteq NamesUnder(built["Snapshot0"], "wasi_unstable")
    /\ {"args_get", "sock_shutdown"}
          \subseteq NamesUnder(built["Snapshot1"], "wasi_snapshot_preview1")

\* C23: an allocation from a counter that stands at 0 leaves the cell at 0, the
\* call returns 0, a call that finds the cell at 0 allocates whatever the thread
\* was given before, and the call after one that returned 0 returns a value
\* that is not 0.
ZeroIsUnassigned ==
    [][\A t \in Threads :
          /\ (Allocates(t) /\ CALLER_ID_SEED = u32(0)) => CALLER_ID'[t] = u32(0)
          /\ (pc[t] = "return" /\ pc'[t] = "idle" /\ CALLER_ID[t] = u32(0)) =>
                rets'[t] # <<>> /\ rets'[t][Len(rets'[t])] = u32(0)
          /\ (pc[t] = "check" /\ pc'[t] # "check" /\ CALLER_ID[t] = u32(0)) =>
                pc'[t] = "fetch_add"
          /\ (/\ pc[t] = "return" /\ pc'[t] = "idle"
              /\ rets[t] # <<>> /\ rets[t][Len(rets[t])] = u32(0)) =>
                /\ CALLER_ID[t] # u32(0)
                /\ rets'[t] = Append(rets[t], CALLER_ID[t])]_vars

\* C23: a thread was returned 0 by one call and another identity by its next.
ZeroThenAnother ==
    \E t \in Threads :
        /\ Len(rets[t]) = 2
        /\ rets[t][1] = u32(0)
        /\ rets[t][2] # u32(0)
        /\ CALLER_ID[t] = rets[t][2]

====
